---- MODULE Spec2Model ----
(***************************************************************************)
(* Model of components/script/dom/htmllinkelement.rs: one HTMLLinkElement, *)
(* its stylesheet slot, its pending-load tracker and request generation    *)
(* id, the attribute / tree hooks that start loads, and the stylesheet     *)
(* loader and document registry it talks to.                               *)
(***************************************************************************)
EXTENDS Integers, Sequences, FiniteSets, TLC

\* ---------------------------------------------------------------- bounds
MaxLoads == 3        \* sub-loads (link requests and nested imports) started per behaviour

\* ------------------------------------------------------------- constants
\* A u32 is held as its value; u32::MAX = 2^32 - 1, the one value past the
\* range of the checker's integers, is written U32_MAX.  It is what 0 - 1
\* wraps to, and U32_MAX + 1 wraps to 0.
U32_MAX == -1

\* Option<T>: None is the empty sequence, Some(x) the one-element sequence
None == << >>
Some(x) == << x >>

\* Attribute values explored.  rel is kept as the list of tokens that
\* split(HTML_SPACE_CHARACTERS) yields; tokens keep their letter case.
RelValues == { <<"alternate", "STYLESHEET">>, <<"Icon">>,
               <<"icon", "stylesheet">>, <<"nofollow">> }
BadHref == "http://[bad"
HrefValues == { "", BadHref, "a.css" }
SizesValues == { "16x16" }
MediaValues == { "screen" }
BaseUrl == "http://base/"

\* Attributes whose value decides what the element does.  sizes is read only
\* to be passed to handle_favicon_url, which ignores it, and media only to be
\* handed to the loader: their values are not kept in the model's state.
StoredAttrs == { "rel", "href" }
AttrNames == StoredAttrs \cup { "sizes", "media" }

ValuesOf(name) ==
    CASE name = "rel" -> RelValues
      [] name = "href" -> HrefValues
      [] name = "sizes" -> SizesValues
      [] OTHER -> MediaValues

VARIABLES
    stylesheet,             \* DomRefCell<Option<Arc<Stylesheet>>>: None or a resource id
    cssom_stylesheet,       \* MutNullableDom<CSSStyleSheet>: None or the resource it wraps
    pending_loads,          \* Cell<u32>
    any_failed_load,        \* Cell<bool>
    request_generation_id,  \* Cell<RequestGenerationId>
    attrs,                  \* the element's attributes: name -> value or None
    bound,                  \* the node has been bound to some tree
    in_doc,                 \* Node::is_in_doc
    browsing_context,       \* document.browsing_context().is_some()
    top_level,              \* window.is_top_level()
    registry,               \* stylesheets the document holds for this owner
    inflight,               \* sub-loads the loader has started and not finished
    panicked,               \* an assert! of the element has failed
    initiations,            \* history: number of loader.load calls so far
    started,                \* history: number of sub-loads reported started so far
    batch_failed,           \* history: a sub-load of the batch not yet reported has failed
    current_failed,         \* history: one that failed carried the then current generation
    effects,                \* calls made to collaborators by the last handler
    last                    \* the last handler run and its inputs

vars == << stylesheet, cssom_stylesheet, pending_loads, any_failed_load,
           request_generation_id, attrs, bound, in_doc, browsing_context,
           top_level, registry, inflight, panicked, initiations, started,
           batch_failed, current_failed, effects, last >>

\* registry, loader, embedder: the calls made to the document, the stylesheet
\* loader and the embedder; report: the value load_finished returned;
\* constructed: the sheets CSSStyleSheet::new was called over; returned: the
\* wrapper get_cssom_stylesheet returned
NoEffects == [ registry |-> << >>, loader |-> << >>, embedder |-> << >>, report |-> << >>,
               constructed |-> << >>, returned |-> None ]
NoLoad == [ req |-> 0, gen |-> 0, kind |-> "none", n |-> 0 ]
NoOp == "-"

\* op: the handler; name, flag, carries, load: its inputs (attribute name,
\* removal / tree_in_doc / succeeded, whether the completion carries a sheet,
\* the sub-load completed); proto, href: the protocol the hook ran
Op(op, name, flag, carries, load, p) ==
    [ op |-> op, name |-> name, flag |-> flag, carries |-> carries, load |-> load,
      proto |-> p.proto, href |-> p.href ]

\* ------------------------------------------------- RequestGenerationId
wrapping_add(x) == IF x = U32_MAX THEN 0 ELSE x + 1

wrapping_sub(x) == IF x = 0 THEN U32_MAX ELSE x - 1

increment_same(g) == g

increment(g) == wrapping_add(g)

get_request_generation_id_default(cell) == 0

get_request_generation_id(cell) == cell

\* ------------------------------------------------------------ rel tokens
to_ascii_lowercase(s) ==
    CASE s = "STYLESHEET" -> "stylesheet"
      [] s = "Icon" -> "icon"
      [] OTHER -> s

eq_ignore_ascii_case(a, b) == to_ascii_lowercase(a) = to_ascii_lowercase(b)

string_is_stylesheet_case_sensitive(value) ==
    IF value = None THEN FALSE
    ELSE \E i \in 1..Len(value[1]) : value[1][i] = "stylesheet"

string_is_stylesheet(value) ==
    IF value = None THEN FALSE
    ELSE \E i \in 1..Len(value[1]) : eq_ignore_ascii_case(value[1][i], "stylesheet")

is_favicon_case_sensitive(value) ==
    IF value = None THEN FALSE
    ELSE \E i \in 1..Len(value[1]) :
            value[1][i] = "icon" \/ value[1][i] = "apple-touch-icon"

is_favicon(value) ==
    IF value = None THEN FALSE
    ELSE \E i \in 1..Len(value[1]) :
            \/ eq_ignore_ascii_case(value[1][i], "icon")
            \/ eq_ignore_ascii_case(value[1][i], "apple-touch-icon")

\* document.base_url().join(href)
join(href) ==
    IF href = BadHref THEN [ ok |-> FALSE, url |-> "" ]
    ELSE IF href = "" THEN [ ok |-> TRUE, url |-> BaseUrl ]
    ELSE [ ok |-> TRUE, url |-> href ]

\* ------------------------------------------------ document registry
\* Document::add_stylesheet / remove_stylesheet for this owner; removing a
\* sheet that is not registered does nothing.
add_stylesheet(reg, s) == reg \cup { s }

remove_stylesheet(reg, s) == reg \ { s }

RECURSIVE ApplyRegistry(_, _)
ApplyRegistry(reg, calls) ==
    IF calls = << >> THEN reg
    ELSE LET c == Head(calls)
         IN ApplyRegistry(IF c.call = "add_stylesheet" THEN add_stylesheet(reg, c.sheet)
                          ELSE remove_stylesheet(reg, c.sheet),
                          Tail(calls))

\* ------------------------------------------------------ resource slot
set_stylesheet_add_first(slot, cssom, s) ==
    LET removed == IF slot /= None
                   THEN << [ call |-> "remove_stylesheet", sheet |-> slot[1] ] >>
                   ELSE << >>
    IN [ stylesheet |-> Some(s),
         cssom_stylesheet |-> None,
         registry |-> << [ call |-> "add_stylesheet", sheet |-> s ] >> \o removed ]

set_stylesheet_keep_previous(slot, cssom, s) ==
    [ stylesheet |-> Some(s),
      cssom_stylesheet |-> None,
      registry |-> << [ call |-> "add_stylesheet", sheet |-> s ] >> ]

set_stylesheet_keep_wrapper(slot, cssom, s) ==
    LET removed == IF slot /= None
                   THEN << [ call |-> "remove_stylesheet", sheet |-> slot[1] ] >>
                   ELSE << >>
    IN [ stylesheet |-> Some(s),
         cssom_stylesheet |-> cssom,
         registry |-> removed \o << [ call |-> "add_stylesheet", sheet |-> s ] >> ]

set_stylesheet(slot, cssom, s) ==
    LET removed == IF slot /= None
                   THEN << [ call |-> "remove_stylesheet", sheet |-> slot[1] ] >>
                   ELSE << >>
    IN [ stylesheet |-> Some(s),
         cssom_stylesheet |-> None,
         registry |-> removed \o << [ call |-> "add_stylesheet", sheet |-> s ] >> ]

get_stylesheet(slot) == slot

\* the wrapper is identified by the sheet it was constructed over
\* constructed: the sheets CSSStyleSheet::new was called over (or_init's closure)
get_cssom_stylesheet_rebuild(slot, cssom) ==
    IF get_stylesheet(slot) = None
    THEN [ ret |-> None, cssom_stylesheet |-> cssom, constructed |-> << >> ]
    ELSE [ ret |-> slot, cssom_stylesheet |-> slot, constructed |-> << slot[1] >> ]

get_cssom_stylesheet(slot, cssom) ==
    IF get_stylesheet(slot) = None
    THEN [ ret |-> None, cssom_stylesheet |-> cssom, constructed |-> << >> ]
    ELSE IF cssom = None
         THEN [ ret |-> slot, cssom_stylesheet |-> slot, constructed |-> << slot[1] >> ]
         ELSE [ ret |-> cssom, cssom_stylesheet |-> cssom, constructed |-> << >> ]

unbind_from_tree_keep_registered(slot) ==
    [ stylesheet |-> None, registry |-> << >> ]

unbind_from_tree(slot) ==
    [ stylesheet |-> None,
      registry |-> IF slot /= None
                   THEN << [ call |-> "remove_stylesheet", sheet |-> slot[1] ] >>
                   ELSE << >> ]

\* ------------------------------------------------ pending-load tracker
increment_pending_loads_count(p) == wrapping_add(p)

\* ret is the Option<bool>: << >> for None, << b >> for Some(b)
load_finished_forget_failure(p, af, succeeded) ==
    IF ~(p /= 0)
    THEN [ panic |-> TRUE, pending_loads |-> p, any_failed_load |-> af, ret |-> << >> ]
    ELSE IF wrapping_sub(p) /= 0
         THEN [ panic |-> FALSE, pending_loads |-> wrapping_sub(p),
                any_failed_load |-> af, ret |-> << >> ]
         ELSE [ panic |-> FALSE, pending_loads |-> wrapping_sub(p),
                any_failed_load |-> FALSE, ret |-> << af >> ]

load_finished_unchecked(p, af, succeeded) ==
    LET af1 == IF ~succeeded THEN TRUE ELSE af
        p1 == wrapping_sub(p)
    IN IF p1 /= 0
       THEN [ panic |-> FALSE, pending_loads |-> p1, any_failed_load |-> af1,
              ret |-> << >> ]
       ELSE [ panic |-> FALSE, pending_loads |-> p1, any_failed_load |-> FALSE,
              ret |-> << af1 >> ]

load_finished_no_reset(p, af, succeeded) ==
    IF ~(p /= 0)
    THEN [ panic |-> TRUE, pending_loads |-> p, any_failed_load |-> af, ret |-> << >> ]
    ELSE LET af1 == IF ~succeeded THEN TRUE ELSE af
             p1 == wrapping_sub(p)
         IN [ panic |-> FALSE, pending_loads |-> p1, any_failed_load |-> af1,
              ret |-> IF p1 /= 0 THEN << >> ELSE << af1 >> ]

load_finished_keep_count(p, af, succeeded) ==
    IF ~(p /= 0)
    THEN [ panic |-> TRUE, pending_loads |-> p, any_failed_load |-> af, ret |-> << >> ]
    ELSE [ panic |-> FALSE, pending_loads |-> p,
           any_failed_load |-> IF ~succeeded THEN TRUE ELSE af, ret |-> << >> ]

load_finished_report_early(p, af, succeeded) ==
    IF ~(p /= 0)
    THEN [ panic |-> TRUE, pending_loads |-> p, any_failed_load |-> af, ret |-> << >> ]
    ELSE LET af1 == IF ~succeeded THEN TRUE ELSE af
             p1 == wrapping_sub(p)
         IN [ panic |-> FALSE, pending_loads |-> p1,
              any_failed_load |-> IF p1 /= 0 THEN af1 ELSE FALSE, ret |-> << af1 >> ]

load_finished_skip_failed(p, af, succeeded) ==
    IF ~(p /= 0)
    THEN [ panic |-> TRUE, pending_loads |-> p, any_failed_load |-> af, ret |-> << >> ]
    ELSE IF ~succeeded
         THEN [ panic |-> FALSE, pending_loads |-> p, any_failed_load |-> TRUE, ret |-> << >> ]
         ELSE LET p1 == wrapping_sub(p)
              IN IF p1 /= 0
                 THEN [ panic |-> FALSE, pending_loads |-> p1, any_failed_load |-> af,
                        ret |-> << >> ]
                 ELSE [ panic |-> FALSE, pending_loads |-> p1, any_failed_load |-> FALSE,
                        ret |-> << af >> ]

load_finished(p, af, succeeded) ==
    IF ~(p /= 0)
    THEN [ panic |-> TRUE, pending_loads |-> p, any_failed_load |-> af, ret |-> << >> ]
    ELSE LET af1 == IF ~succeeded THEN TRUE ELSE af
             p1 == wrapping_sub(p)
         IN IF p1 /= 0
            THEN [ panic |-> FALSE, pending_loads |-> p1, any_failed_load |-> af1,
                   ret |-> << >> ]
            ELSE [ panic |-> FALSE, pending_loads |-> p1, any_failed_load |-> FALSE,
                   ret |-> << af1 >> ]

\* ----------------------------------------------------------- protocols
\* The new generation id and the loader.load calls made.
handle_stylesheet_url_no_empty_check(gen, href) ==
    IF ~browsing_context THEN [ gen |-> gen, loader |-> << >> ]
    ELSE IF ~join(href).ok THEN [ gen |-> gen, loader |-> << >> ]
    ELSE [ gen |-> increment(gen), loader |-> << join(href).url >> ]

handle_stylesheet_url(gen, href) ==
    IF ~browsing_context THEN [ gen |-> gen, loader |-> << >> ]
    ELSE IF href = "" THEN [ gen |-> gen, loader |-> << >> ]
    ELSE IF ~join(href).ok THEN [ gen |-> gen, loader |-> << >> ]
    ELSE [ gen |-> increment(gen), loader |-> << join(href).url >> ]

\* The EmbedderMsg::NewFavicon messages sent.
handle_favicon_url_any_window(href) ==
    IF join(href).ok THEN << join(href).url >> ELSE << >>

handle_favicon_url(href) ==
    IF join(href).ok
    THEN IF top_level THEN << join(href).url >> ELSE << >>
    ELSE << >>

NoProtocol == [ proto |-> "none", href |-> "" ]
Protocol(proto, href) == [ proto |-> proto, href |-> href[1] ]

attribute_mutated_detached(a, name, removal) ==
    IF removal THEN NoProtocol
    ELSE IF name = "href"
         THEN IF string_is_stylesheet(a.rel) THEN Protocol("stylesheet", a.href)
              ELSE IF is_favicon(a.rel) THEN Protocol("favicon", a.href)
              ELSE NoProtocol
    ELSE IF name = "sizes"
         THEN IF is_favicon(a.rel) /\ a.href /= None
              THEN Protocol("favicon", a.href)
              ELSE NoProtocol
    ELSE NoProtocol

\* Which protocol the hook runs, and on which href; a is the attribute set
\* after the mutation.
attribute_mutated(a, name, removal) ==
    IF ~in_doc \/ removal THEN NoProtocol
    ELSE IF name = "href"
         THEN IF string_is_stylesheet(a.rel) THEN Protocol("stylesheet", a.href)
              ELSE IF is_favicon(a.rel) THEN Protocol("favicon", a.href)
              ELSE NoProtocol
    ELSE IF name = "sizes"
         THEN IF is_favicon(a.rel) /\ a.href /= None
              THEN Protocol("favicon", a.href)
              ELSE NoProtocol
    ELSE NoProtocol

bind_to_tree(a, tree_in_doc) ==
    IF ~tree_in_doc THEN NoProtocol
    ELSE IF a.href /= None /\ string_is_stylesheet(a.rel)
         THEN Protocol("stylesheet", a.href)
    ELSE IF a.href /= None /\ is_favicon(a.rel)
         THEN Protocol("favicon", a.href)
    ELSE NoProtocol

\* ------------------------------------------------- stylesheet loader
\* StylesheetLoader::load: the request is tagged with the element's
\* generation id at call time and reported started to the owner.
SubLoad(req, gen, kind, n) == [ req |-> req, gen |-> gen, kind |-> kind, n |-> n ]

loader_load(infl, req, gen) == infl \cup { SubLoad(req, gen, "link", 0) }

Imports(infl, req) == { l \in infl : l.req = req /\ l.kind = "import" }

\* install(resource, generationAtRequest)
install(slot, cssom, resource, generationAtRequest) ==
    IF generationAtRequest /= get_request_generation_id(request_generation_id)
    THEN [ stylesheet |-> slot, cssom_stylesheet |-> cssom, registry |-> << >> ]
    ELSE set_stylesheet(slot, cssom, resource)

\* ---------------------------------------------------------------- Init
Init ==
    /\ stylesheet = None
    /\ cssom_stylesheet = None
    /\ pending_loads = 0
    /\ any_failed_load = FALSE
    /\ request_generation_id = 0
    /\ attrs = [ rel |-> None, href |-> None ]
    /\ bound = FALSE
    /\ in_doc = FALSE
    /\ browsing_context \in BOOLEAN
    /\ top_level \in BOOLEAN
    /\ registry = { }
    /\ inflight = { }
    /\ panicked = FALSE
    /\ initiations = 0
    /\ started = 0
    /\ batch_failed = FALSE
    /\ current_failed = FALSE
    /\ effects = NoEffects
    /\ last = Op("new", NoOp, FALSE, FALSE, NoLoad, NoProtocol)

\* ------------------------------------------------------------- actions
\* The protocol p chosen by a hook: handle_stylesheet_url (with the
\* loader.load call it ends in) or handle_favicon_url.
RunProtocol(p) ==
    LET r == IF p.proto = "stylesheet"
             THEN handle_stylesheet_url(request_generation_id, p.href)
             ELSE [ gen |-> request_generation_id, loader |-> << >> ]
        msgs == IF p.proto = "favicon" THEN handle_favicon_url(p.href) ELSE << >>
        loads == r.loader /= << >>
        tag == get_request_generation_id(r.gen)
    IN /\ loads => started < MaxLoads
       /\ request_generation_id' = r.gen
       /\ IF loads
          THEN /\ inflight' = loader_load(inflight, initiations + 1, tag)
               /\ pending_loads' = increment_pending_loads_count(pending_loads)
               /\ initiations' = initiations + 1
               /\ started' = started + 1
               /\ current_failed' = FALSE
          ELSE UNCHANGED << inflight, pending_loads, initiations, started,
                            current_failed >>
       /\ effects' = [ NoEffects EXCEPT
                         !.loader = IF loads
                                    THEN << [ url |-> r.loader[1], gen |-> tag ] >>
                                    ELSE << >>,
                         !.embedder = msgs ]

AttributeMutated(name, removal, v) ==
    LET a == IF name \in StoredAttrs
             THEN [ attrs EXCEPT ![name] = IF removal THEN None ELSE Some(v) ]
             ELSE attrs
        p == attribute_mutated(a, name, removal)
    IN /\ ~panicked
       /\ removal /\ name \in StoredAttrs => attrs[name] /= None
       /\ attrs' = a
       /\ RunProtocol(p)
       /\ last' = Op("attribute_mutated", name, removal, FALSE, NoLoad, p)
       /\ UNCHANGED << stylesheet, cssom_stylesheet, any_failed_load, bound, in_doc,
                       browsing_context, top_level, registry, panicked, batch_failed >>

BindToTree(tree_in_doc) ==
    LET p == bind_to_tree(attrs, tree_in_doc)
    IN /\ ~panicked
       /\ ~bound
       /\ bound' = TRUE
       /\ in_doc' = tree_in_doc
       /\ RunProtocol(p)
       /\ last' = Op("bind_to_tree", NoOp, tree_in_doc, FALSE, NoLoad, p)
       /\ UNCHANGED << stylesheet, cssom_stylesheet, any_failed_load, attrs,
                       browsing_context, top_level, registry, panicked, batch_failed >>

UnbindFromTree ==
    LET u == unbind_from_tree(stylesheet)
    IN /\ ~panicked
       /\ bound
       /\ bound' = FALSE
       /\ in_doc' = FALSE
       /\ stylesheet' = u.stylesheet
       /\ registry' = ApplyRegistry(registry, u.registry)
       /\ effects' = [ NoEffects EXCEPT !.registry = u.registry ]
       /\ last' = Op("unbind_from_tree", NoOp, FALSE, FALSE, NoLoad, NoProtocol)
       /\ UNCHANGED << cssom_stylesheet, pending_loads, any_failed_load,
                       request_generation_id, attrs, browsing_context, top_level,
                       inflight, panicked, initiations, started, batch_failed,
                       current_failed >>

\* GetSheet and set_origin_clean both go through get_cssom_stylesheet.
GetCssomStylesheet ==
    /\ ~panicked
    /\ LET g == get_cssom_stylesheet(stylesheet, cssom_stylesheet)
       IN /\ cssom_stylesheet' = g.cssom_stylesheet
          /\ effects' = [ NoEffects EXCEPT !.constructed = g.constructed,
                                           !.returned = g.ret ]
    /\ last' = Op("get_cssom_stylesheet", NoOp, FALSE, FALSE, NoLoad, NoProtocol)
    /\ UNCHANGED << stylesheet, pending_loads, any_failed_load, request_generation_id,
                    attrs, bound, in_doc, browsing_context, top_level, registry,
                    inflight, panicked, initiations, started, batch_failed,
                    current_failed >>

\* The loader reports a nested sub-load of request req as started.
ImportStarted(req) ==
    /\ ~panicked
    /\ \E l \in inflight : l.req = req
    /\ started < MaxLoads
    /\ started' = started + 1
    /\ LET tag == (CHOOSE l \in inflight : l.req = req).gen
           n == Cardinality(Imports(inflight, req)) + 1
       IN /\ inflight' = inflight \cup { SubLoad(req, tag, "import", n) }
          /\ last' = Op("increment_pending_loads_count", NoOp, FALSE, FALSE,
                        SubLoad(req, tag, "import", n), NoProtocol)
    /\ pending_loads' = increment_pending_loads_count(pending_loads)
    /\ effects' = NoEffects
    /\ UNCHANGED << stylesheet, cssom_stylesheet, any_failed_load,
                    request_generation_id, attrs, bound, in_doc, browsing_context,
                    top_level, registry, panicked, initiations, batch_failed,
                    current_failed >>

\* The loader delivers the completion of sub-load l: the sheet it carries, if
\* any, is installed when its generation is still current, then the outcome
\* is accounted and the aggregate, once known, reported.
Completion(l, succeeded, carries) ==
    LET inst == IF carries
                THEN install(stylesheet, cssom_stylesheet, l.req, l.gen)
                ELSE [ stylesheet |-> stylesheet, cssom_stylesheet |-> cssom_stylesheet,
                       registry |-> << >> ]
        lf == load_finished(pending_loads, any_failed_load, succeeded)
    IN /\ ~panicked
       /\ l \in inflight
       /\ l.kind = "import" =>
            /\ ~carries
            /\ l.n = Cardinality(Imports(inflight, l.req))
       /\ l.kind = "link" => (succeeded => carries)
       /\ stylesheet' = inst.stylesheet
       /\ cssom_stylesheet' = inst.cssom_stylesheet
       /\ registry' = ApplyRegistry(registry, inst.registry)
       /\ pending_loads' = lf.pending_loads
       /\ any_failed_load' = lf.any_failed_load
       /\ panicked' = lf.panic
       /\ inflight' = inflight \ { l }
       /\ batch_failed' = IF inflight = { l } THEN FALSE ELSE batch_failed \/ ~succeeded
       /\ current_failed' = IF inflight = { l } THEN FALSE
                            ELSE IF succeeded \/ l.gen /= request_generation_id
                            THEN current_failed
                            ELSE TRUE
       /\ effects' = [ NoEffects EXCEPT !.registry = inst.registry, !.report = lf.ret ]
       /\ last' = Op("load_finished", NoOp, succeeded, carries, l, NoProtocol)
       /\ UNCHANGED << request_generation_id, attrs, bound, in_doc, browsing_context,
                       top_level, initiations, started >>

\* A "finished" notification that matches no started sub-load.
SpuriousLoadFinished(succeeded) ==
    LET lf == load_finished(pending_loads, any_failed_load, succeeded)
    IN /\ ~panicked
       /\ pending_loads' = lf.pending_loads
       /\ any_failed_load' = lf.any_failed_load
       /\ panicked' = lf.panic
       /\ effects' = [ NoEffects EXCEPT !.report = lf.ret ]
       /\ last' = Op("load_finished", NoOp, succeeded, FALSE, NoLoad, NoProtocol)
       /\ UNCHANGED << stylesheet, cssom_stylesheet, request_generation_id, attrs,
                       bound, in_doc, browsing_context, top_level, registry, inflight,
                       initiations, started, batch_failed, current_failed >>

Next ==
    \/ \E name \in AttrNames : \E v \in ValuesOf(name) :
          AttributeMutated(name, FALSE, v)
    \/ \E name \in AttrNames : AttributeMutated(name, TRUE, "")
    \/ \E tree_in_doc \in BOOLEAN : BindToTree(tree_in_doc)
    \/ UnbindFromTree
    \/ GetCssomStylesheet
    \/ \E req \in 1..MaxLoads : ImportStarted(req)
    \/ \E l \in inflight, succeeded \in BOOLEAN, carries \in BOOLEAN :
          Completion(l, succeeded, carries)

Spec == Init /\ [][Next]_vars

\* The element under a loader that may also deliver unmatched "finished"
\* notifications; the hooks that never reach the tracker (the wrapper getter,
\* mutations of sizes and media) are left out.
NextMisuse ==
    \/ \E name \in StoredAttrs : \E v \in ValuesOf(name) :
          AttributeMutated(name, FALSE, v)
    \/ \E name \in StoredAttrs : AttributeMutated(name, TRUE, "")
    \/ \E tree_in_doc \in BOOLEAN : BindToTree(tree_in_doc)
    \/ UnbindFromTree
    \/ \E req \in 1..MaxLoads : ImportStarted(req)
    \/ \E l \in inflight, succeeded \in BOOLEAN, carries \in BOOLEAN :
          Completion(l, succeeded, carries)
    \/ \E succeeded \in BOOLEAN : SpuriousLoadFinished(succeeded)

SpecMisuse == Init /\ [][NextMisuse]_vars

\* The element under a loader that finishes every sub-load it has started:
\* the hooks that start loads, bump the generation or empty the slot, and
\* the loader's notifications; attribute removals, sizes and media mutations
\* and the wrapper getter, which reach neither the tracker nor the loader,
\* are left out.  A sub-load in flight can always be finished, and the loader
\* does not put it off for ever.
Finish ==
    \E l \in inflight, succeeded \in BOOLEAN, carries \in BOOLEAN :
        Completion(l, succeeded, carries)

NextFair ==
    \/ \E name \in StoredAttrs : \E v \in ValuesOf(name) :
          AttributeMutated(name, FALSE, v)
    \/ \E tree_in_doc \in BOOLEAN : BindToTree(tree_in_doc)
    \/ UnbindFromTree
    \/ \E req \in 1..MaxLoads : ImportStarted(req)
    \/ Finish

SpecFair == Init /\ [][NextFair]_vars /\ WF_vars(Finish)

\* =================================================================== claims
IsStep(op) == last'.op = op

StaleLoad(l) == l.gen /= request_generation_id

\* C1: a completion whose generation tag differs from the element's current
\* generation installs nothing: the stylesheet slot and the document
\* registry stay as they were, whatever loads were started and finished before.
C1_StaleInstallIsNoOp ==
    [][ (IsStep("load_finished") /\ StaleLoad(last'.load))
          => /\ stylesheet' = stylesheet
             /\ registry' = registry
             /\ effects'.registry = << >> ]_vars

\* generation 2's sheet is installed and a completion tagged 1, carrying a
\* sheet, has just been delivered
C1_Witness ==
    /\ last.op = "load_finished"
    /\ last.carries
    /\ last.load.gen = 1
    /\ request_generation_id = 2
    /\ stylesheet = Some(2)
    /\ registry = { 2 }

\* C2: load_finished returns no report while sub-loads of the batch remain
\* outstanding, and on the call that finishes the last one it returns one
\* report, which is "failed" exactly when a sub-load of the batch failed.
C2_AggregateOnLastFinish ==
    [][ IsStep("load_finished")
          => effects'.report =
               IF Cardinality(inflight) > 1 THEN << >>
               ELSE << batch_failed \/ ~last'.flag >> ]_vars

\* the batch is reported failed by a final sub-load that itself succeeded
C2_Witness ==
    /\ last.op = "load_finished"
    /\ last.flag
    /\ inflight = { }
    /\ started = MaxLoads
    /\ effects.report = << TRUE >>

\* C3: the generation id equals the number of loader.load calls made so far:
\* it starts at 0 and moves, by one, only when a load is initiated.
C3_GenerationCountsInitiations ==
    /\ request_generation_id = initiations
    /\ \A l \in inflight : l.kind = "link" => l.gen = l.req

\* the href mutation has been run again and got the second generation id
C3_Witness ==
    /\ last.op = "attribute_mutated"
    /\ last.name = "href"
    /\ effects.loader /= << >>
    /\ request_generation_id = 2
    /\ initiations = 2

\* C4: while the element is out of the document its slot is empty and nothing
\* is registered for it, so a completion delivered after the removal installs
\* nothing.
C4_NothingInstalledWhileDetached ==
    ~in_doc => (stylesheet = None /\ registry = { })

\* C5: unbind_from_tree empties the slot and calls remove_stylesheet once, for
\* the sheet that was installed, or not at all when the slot was empty.
C5_UnbindReleasesOnce ==
    [][ IsStep("unbind_from_tree")
          => /\ stylesheet' = None
             /\ effects'.registry =
                  IF stylesheet /= None
                  THEN << [ call |-> "remove_stylesheet", sheet |-> stylesheet[1] ] >>
                  ELSE << >>
             /\ registry' = registry \ { s \in registry : stylesheet = Some(s) } ]_vars

C5_Witness ==
    /\ last.op = "unbind_from_tree"
    /\ stylesheet = None
    /\ Len(effects.registry) = 1
    /\ registry = { }

\* C6 as stated: a completion tagged with a generation lower than the current
\* one changes neither the slot, nor pending_loads, nor any_failed_load.
C6_StaleCompletionChangesNothing ==
    [][ (IsStep("load_finished") /\ last'.load.gen < request_generation_id)
          => /\ stylesheet' = stylesheet
             /\ pending_loads' = pending_loads
             /\ any_failed_load' = any_failed_load ]_vars

\* C6 amended: a completion tagged with a generation lower than the current
\* one leaves the slot and its wrapper alone, and is accounted like any other:
\* pending_loads goes down by one, any_failed_load is set by a failure and
\* cleared when the completion is the last one outstanding.
C6_StaleCompletionIsAccounted ==
    [][ (IsStep("load_finished") /\ last'.load.gen < request_generation_id)
          => /\ stylesheet' = stylesheet
             /\ cssom_stylesheet' = cssom_stylesheet
             /\ pending_loads' = pending_loads - 1
             /\ any_failed_load' = IF pending_loads = 1 THEN FALSE
                                   ELSE any_failed_load \/ ~last'.flag ]_vars

\* a failed completion of generation 1 arrives while generation 2 is current
\* and still loading
C6_Witness ==
    /\ last.op = "load_finished"
    /\ ~last.flag
    /\ last.carries
    /\ last.load.gen = 1
    /\ request_generation_id = 2
    /\ pending_loads = 1
    /\ any_failed_load

\* C7: the stylesheet protocol run on an empty or unresolvable href does
\* nothing: same generation id, no loader call, no notification, and the
\* tracker and the slot unchanged.
C7_EmptyOrBadHrefIsNoOp ==
    [][ (last'.proto = "stylesheet" /\ last'.href \in { "", BadHref }
         /\ (IsStep("bind_to_tree") \/ IsStep("attribute_mutated")))
          => /\ request_generation_id' = request_generation_id
             /\ pending_loads' = pending_loads
             /\ any_failed_load' = any_failed_load
             /\ stylesheet' = stylesheet
             /\ inflight' = inflight
             /\ effects' = NoEffects ]_vars

\* href was set to the empty string on a stylesheet link in a document that
\* has a browsing context
C7_Witness ==
    /\ last.op = "attribute_mutated"
    /\ last.name = "href"
    /\ last.proto = "stylesheet"
    /\ last.href = ""
    /\ browsing_context
    /\ in_doc

\* C8: load_finished called with pending_loads = 0 fails its assertion and
\* changes nothing; pending_loads never wraps below 0.
C8_FinishedWithoutStartedPanics ==
    [][ /\ (IsStep("load_finished") /\ pending_loads = 0)
             => /\ panicked'
                /\ pending_loads' = 0
                /\ any_failed_load' = any_failed_load
                /\ effects'.report = << >>
        /\ pending_loads' \in 0..started' ]_vars

C8_Witness ==
    /\ panicked
    /\ last.op = "load_finished"
    /\ pending_loads = 0
    /\ started > 0

IndicatesIcon(rel) ==
    /\ rel /= None
    /\ \E i \in 1..Len(rel[1]) :
          to_ascii_lowercase(rel[1][i]) \in { "icon", "apple-touch-icon" }

\* C9: on an element in a top-level document whose rel names an icon and
\* whose href resolves, setting sizes sends one NewFavicon message, calls no
\* loader and leaves generation id, tracker and slot unchanged.
C9_SizesChangeNotifiesOnce ==
    [][ (/\ IsStep("attribute_mutated")
         /\ last'.name = "sizes"
         /\ ~last'.flag
         /\ in_doc
         /\ top_level
         /\ IndicatesIcon(attrs.rel)
         /\ attrs.href /= None
         /\ attrs.href /= Some(BadHref))
          => /\ Len(effects'.embedder) = 1
             /\ effects'.loader = << >>
             /\ request_generation_id' = request_generation_id
             /\ pending_loads' = pending_loads
             /\ any_failed_load' = any_failed_load
             /\ stylesheet' = stylesheet
             /\ registry' = registry ]_vars

C9_Witness ==
    /\ last.op = "attribute_mutated"
    /\ last.name = "sizes"
    /\ ~last.flag
    /\ attrs.rel = Some(<< "Icon" >>)
    /\ effects.embedder = << "a.css" >>
    /\ in_doc
    /\ top_level

\* C10 as stated: pending_loads counts the outstanding sub-loads of the
\* current generation only, and any_failed_load is set only if a sub-load of
\* the current generation has failed.
C10_TrackerCountsCurrentGeneration ==
    /\ pending_loads = Cardinality({ l \in inflight : l.gen = request_generation_id })
    /\ any_failed_load => current_failed

\* C10 amended: pending_loads counts the outstanding sub-loads of every
\* generation, and any_failed_load is set only if a sub-load, of whatever
\* generation, has failed in the batch still outstanding.
C10_TrackerCountsAllGenerations ==
    /\ pending_loads = Cardinality(inflight)
    /\ any_failed_load => (batch_failed /\ inflight /= { })

\* sub-loads of two generations are outstanding after one of the superseded
\* generation failed
C10_Witness ==
    /\ request_generation_id = 2
    /\ pending_loads = 2
    /\ \E l \in inflight : l.gen = 1
    /\ any_failed_load
    /\ ~current_failed

\* ------------------------------------------------------------------ C11
\* C11: whenever pending_loads is 0, any_failed_load is false; and a handler
\* returns a report exactly when it takes pending_loads from 1 to 0: once
\* for each such step, and never at any other step.
C11_ReportExactlyOnLastFinish ==
    /\ pending_loads = 0 => ~any_failed_load
    /\ [][ /\ pending_loads' = 0 => ~any_failed_load'
           /\ Len(effects'.report) =
                IF pending_loads = 1 /\ pending_loads' = 0 THEN 1 ELSE 0 ]_vars

\* a batch in which a sub-load failed has just been reported, and the flag
\* is back to false with the count at 0
C11_Witness ==
    /\ last.op = "load_finished"
    /\ effects.report = << TRUE >>
    /\ pending_loads = 0
    /\ ~any_failed_load
    /\ started = 3

\* ------------------------------------------------------------------ C12
\* set_stylesheet has run in the step: the completion carried a sheet whose
\* generation tag was the current one
Installs == IsStep("load_finished") /\ last'.carries /\ ~StaleLoad(last'.load)

\* C12: after the slot is replaced (set_stylesheet) and after it is cleared
\* (removal from the tree), the cached wrapper field is empty.
C12_WrapperClearedWithSlot ==
    [][ Installs \/ IsStep("unbind_from_tree") => cssom_stylesheet' = None ]_vars

\* ------------------------------------------------------------------ C13
\* C13: the slot holds at most one resource; a set_stylesheet over an
\* occupied slot calls remove_stylesheet for the previous resource and then
\* add_stylesheet for the new one, over an empty slot add_stylesheet alone;
\* afterwards the slot holds the new resource.
C13_ReplaceRemovesThenAdds ==
    [][ /\ Len(stylesheet') <= 1
        /\ Installs =>
             /\ stylesheet' = Some(last'.load.req)
             /\ effects'.registry =
                  IF stylesheet /= None
                  THEN << [ call |-> "remove_stylesheet", sheet |-> stylesheet[1] ],
                          [ call |-> "add_stylesheet", sheet |-> last'.load.req ] >>
                  ELSE << [ call |-> "add_stylesheet", sheet |-> last'.load.req ] >> ]_vars

\* sheet 2 has just replaced sheet 1
C13_Witness ==
    /\ last.op = "load_finished"
    /\ stylesheet = Some(2)
    /\ effects.registry = << [ call |-> "remove_stylesheet", sheet |-> 1 ],
                             [ call |-> "add_stylesheet", sheet |-> 2 ] >>

\* ------------------------------------------------------------------ C14
IndicatesStylesheet(rel) ==
    /\ rel /= None
    /\ \E i \in 1..Len(rel[1]) : to_ascii_lowercase(rel[1][i]) = "stylesheet"

\* the step inserts the element into the document tree, or sets its href
\* while it is in the tree, with a stylesheet rel and a non-empty resolvable href
StylesheetTrigger ==
    /\ \/ IsStep("bind_to_tree") /\ last'.flag
       \/ IsStep("attribute_mutated") /\ last'.name = "href" /\ ~last'.flag /\ in_doc
    /\ IndicatesStylesheet(attrs'.rel)
    /\ attrs'.href /= None
    /\ attrs'.href /= Some("")
    /\ attrs'.href /= Some(BadHref)

\* the step bumps the generation id once and calls the loader once, with the
\* resolved URL and the new generation id as the request's tag
StartsOneLoad ==
    /\ request_generation_id' = wrapping_add(request_generation_id)
    /\ effects'.loader = << [ url |-> attrs'.href[1], gen |-> request_generation_id' ] >>
    /\ inflight' = inflight \cup { SubLoad(initiations', request_generation_id', "link", 0) }

\* C14 as stated: every such insertion or href change starts one load.
C14_TriggerStartsLoad ==
    [][ StylesheetTrigger => StartsOneLoad ]_vars

\* C14: every such insertion or href change starts one load when the
\* element's document has a browsing context, and none when it has not.
C14_TriggerStartsLoadInBrowsingContext ==
    [][ StylesheetTrigger =>
          IF browsing_context
          THEN StartsOneLoad
          ELSE /\ request_generation_id' = request_generation_id
               /\ effects'.loader = << >>
               /\ inflight' = inflight ]_vars

\* an href change on an element in the tree has started the second load
C14_Witness ==
    /\ last.op = "attribute_mutated"
    /\ last.name = "href"
    /\ in_doc
    /\ browsing_context
    /\ attrs.rel = Some(<< "alternate", "STYLESHEET" >>)
    /\ effects.loader = << [ url |-> "a.css", gen |-> 2 ] >>
    /\ request_generation_id = 2

\* ------------------------------------------------------------------ C15
\* C15: attribute_mutated runs a protocol only for a non-removal mutation of
\* href or sizes on an element in the document; a removal, a mutation while
\* detached and a mutation of any other attribute change none of generation
\* id, pending count, failure flag and slot, and call neither the loader nor
\* the embedder.
C15_OtherMutationsDoNothing ==
    [][ IsStep("attribute_mutated") =>
          /\ last'.proto /= "none" =>
                in_doc /\ ~last'.flag /\ last'.name \in { "href", "sizes" }
          /\ (last'.flag \/ ~in_doc \/ last'.name \notin { "href", "sizes" }) =>
                /\ request_generation_id' = request_generation_id
                /\ pending_loads' = pending_loads
                /\ any_failed_load' = any_failed_load
                /\ stylesheet' = stylesheet
                /\ cssom_stylesheet' = cssom_stylesheet
                /\ inflight' = inflight
                /\ effects'.loader = << >>
                /\ effects'.embedder = << >> ]_vars

\* rel has just been set to a stylesheet rel on an element in the document
\* that has an href, and no load was started
C15_Witness ==
    /\ last.op = "attribute_mutated"
    /\ last.name = "rel"
    /\ ~last.flag
    /\ in_doc
    /\ browsing_context
    /\ attrs.rel = Some(<< "icon", "stylesheet" >>)
    /\ attrs.href = Some("a.css")
    /\ request_generation_id = 0
    /\ effects = NoEffects

\* ------------------------------------------------------------------ C16
\* C16: get_cssom_stylesheet returns none while no resource is installed;
\* over an installed resource it constructs the wrapper only when none is
\* cached, and otherwise returns the cached one; no step drops the cached
\* wrapper while the installed resource stays the same, so at most one
\* wrapper is constructed per installed resource.
C16_WrapperBuiltOncePerResource ==
    [][ /\ IsStep("get_cssom_stylesheet") =>
             IF stylesheet = None
             THEN /\ effects'.returned = None
                  /\ effects'.constructed = << >>
             ELSE IF cssom_stylesheet /= None
             THEN /\ effects'.returned = cssom_stylesheet
                  /\ effects'.constructed = << >>
                  /\ cssom_stylesheet' = cssom_stylesheet
             ELSE /\ effects'.returned = stylesheet
                  /\ effects'.constructed = << stylesheet[1] >>
                  /\ cssom_stylesheet' = stylesheet
        /\ effects'.constructed /= << >> => IsStep("get_cssom_stylesheet")
        /\ (stylesheet /= None /\ stylesheet' = stylesheet /\ cssom_stylesheet /= None)
              => cssom_stylesheet' = cssom_stylesheet ]_vars

\* a repeated call has returned the cached wrapper of sheet 1
C16_Witness ==
    /\ last.op = "get_cssom_stylesheet"
    /\ stylesheet = Some(1)
    /\ effects.returned = Some(1)
    /\ effects.constructed = << >>

\* ------------------------------------------------------------------ C17
\* C17: a NewFavicon message is sent only by the icon protocol, and only
\* when the href resolves and the window is top-level; in a window that is
\* not top-level, or with an href that does not resolve, the protocol sends
\* nothing; and it never changes the generation id.
C17_IconNotificationOnlyTopLevel ==
    [][ /\ effects'.embedder /= << >> =>
             /\ last'.proto = "favicon"
             /\ top_level
             /\ last'.href /= BadHref
             /\ Len(effects'.embedder) = 1
        /\ last'.proto = "favicon" =>
             /\ (~top_level \/ last'.href = BadHref) => effects'.embedder = << >>
             /\ request_generation_id' = request_generation_id
             /\ effects'.loader = << >> ]_vars

\* the icon protocol has run in a window that is not top-level, after a
\* stylesheet load had been started, and sent nothing
C17_Witness ==
    /\ last.proto = "favicon"
    /\ last.href = "a.css"
    /\ ~top_level
    /\ effects.embedder = << >>
    /\ request_generation_id = 1

\* ------------------------------------------------------------------ C18
\* C18: in every reachable state the sheets the document has registered for
\* this element are exactly the content of the slot: none while it is empty.
C18_RegistryMirrorsSlot ==
    registry = IF stylesheet = None THEN { } ELSE { stylesheet[1] }

\* the second sheet has been installed over the first and is the one registered
C18_Witness ==
    /\ stylesheet = Some(2)
    /\ registry = { 2 }
    /\ in_doc
    /\ inflight = { }
    /\ last.op = "get_cssom_stylesheet"

\* ------------------------------------------------------------------ C20
\* C20: a wrapper returned by get_cssom_stylesheet was built over the sheet
\* that is in the slot; and while the slot is occupied, a cached wrapper is
\* one built over the sheet in the slot.
C20_ReturnedWrapperIsOfSlot ==
    /\ effects.returned /= None => effects.returned = stylesheet
    /\ (stylesheet /= None /\ cssom_stylesheet /= None) => cssom_stylesheet = stylesheet

\* the getter has built and returned the wrapper of the second sheet
C20_Witness ==
    /\ last.op = "get_cssom_stylesheet"
    /\ stylesheet = Some(2)
    /\ effects.returned = Some(2)
    /\ effects.constructed = << 2 >>

====
